---------------------------- MODULE Spec2Model ----------------------------
(***************************************************************************)
(* Model of the levelled logger of src/log.go.                             *)
(*                                                                         *)
(* A Logger holds three dispatch slots (errorFn, infoFn, debugFn), each    *)
(* bound either to NoOpFn or to the method logWrite.  New builds a logger  *)
(* with all slots on NoOpFn and calls Level; Level arms slots through a    *)
(* switch with fallthrough; Error/Info/Debug apply the slot and return a   *)
(* PrintFunc; invoking the PrintFunc of logWrite calls Printf of the       *)
(* wrapped standard logger.  Fatal calls the standard library's Fatal.     *)
(*                                                                         *)
(* Go strings that are formatted are modelled as sequences of one-letter   *)
(* strings, so that Join, concatenation and Printf's verb substitution are *)
(* computed.  Level names are only compared for equality and are kept as   *)
(* TLA+ strings.  The wrapped logger is modelled with Flags = 0, that is    *)
(* without date, time or file decorations in front of the prefix; the date *)
(* and time the standard logger puts in front of Fatal's line are left out *)
(* as well.                                                                *)
(***************************************************************************)
EXTENDS Naturals, Sequences, FiniteSets

VARIABLES
    cfg,        \* the Cfg handed to New
    logger,     \* NilLogger before New, then [errorFn, infoFn, debugFn]
    pf,         \* the PrintFunc the caller holds, NilFunc when it holds none
    pfInfo,     \* history: the slot, contexts and arming of the call that made pf
    stdout,     \* the writes the last operation handed to the logger's writer
    stderr,     \* the writes the last operation handed to the standard logger
    alive,      \* FALSE once the process has exited
    last,       \* history: the last operation that completed, with its inputs
    pcLevel,    \* position of the thread running Level (interleaved runs)
    lvlArg      \* the argument of the Level call in progress

vars == <<cfg, logger, pf, pfInfo, stdout, stderr, alive, last, pcLevel, lvlArg>>

\* no logger built yet, no PrintFunc held yet
NilLogger == [errorFn |-> "nil", debugFn |-> "nil", infoFn |-> "nil"]
NilFunc == [fn |-> "nil", prefix |-> <<>>]
NilInfo == [slot |-> "none", ctx |-> <<>>, armed |-> FALSE]

----------------------------------------------------------------------------
(* Bounds of the model.                                                    *)

MaxCtx == 2      \* context strings per Error/Info/Debug call
MaxArgs == 1     \* arguments per PrintFunc or Fatal call

----------------------------------------------------------------------------
(* Constants of src/log.go.                                                *)

LevelError == "Error"
LevelInfo == "Info"
LevelDebug == "Debug"

ErrStr == <<"E", "R">>
InfoStr == <<"I", "N", "F">>
DebugStr == <<"D", "B", "G">>

----------------------------------------------------------------------------
(* Inputs.  The letters of the input strings are ordinary letters and the  *)
(* percent sign; none is a flag, a digit, a dot, a star or an opening      *)
(* bracket, which Printf would read as part of a verb.                     *)

RECURSIVE SeqsUpTo(_, _)
SeqsUpTo(S, n) ==
    IF n = 0 THEN {<<>>}
    ELSE LET shorter == SeqsUpTo(S, n - 1)
         IN  shorter \cup {Append(s, x) : s \in {t \in shorter : Len(t) = n - 1}, x \in S}

LevelNames == {LevelError, LevelInfo, LevelDebug, "bogus", "debug"}
Prefixes == {<<"s", "v", "c">>}
CtxStrs == {<<"a">>, <<"%", "s">>}
CtxLists == SeqsUpTo(CtxStrs, MaxCtx)
Formats == {<<"m">>, <<"v", "=", "%", "s">>, <<"%", "%">>}
ArgStrs == {<<"x">>}
ArgLists == SeqsUpTo(ArgStrs, MaxArgs)

----------------------------------------------------------------------------
(* The standard library calls the code makes: strings.Join, fmt.Sprintf,   *)
(* fmt.Sprint and log.Logger.Output.                                       *)

RECURSIVE Join(_, _)
Join(elems, sep) ==
    IF Len(elems) = 0 THEN <<>>
    ELSE IF Len(elems) = 1 THEN elems[1]
    ELSE elems[1] \o sep \o Join(Tail(elems), sep)

RECURSIVE Sprint(_)
Sprint(args) ==
    IF Len(args) = 0 THEN <<>> ELSE args[1] \o Sprint(Tail(args))

NoVerbString == <<"%", "!", "(", "N", "O", "V", "E", "R", "B", ")">>
MissingString == <<"(", "M", "I", "S", "S", "I", "N", "G", ")">>
ExtraString == <<"%", "!", "(", "E", "X", "T", "R", "A", " ">>
TypeString == <<"s", "t", "r", "i", "n", "g", "=">>

RECURSIVE ExtraArgs(_, _)
ExtraArgs(args, n) ==
    IF n > Len(args) THEN <<>>
    ELSE TypeString \o args[n]
         \o (IF n < Len(args) THEN <<",", " ">> ELSE <<>>)
         \o ExtraArgs(args, n + 1)

BadVerb(verb, arg) == <<"%", "!", verb, "(">> \o TypeString \o arg \o <<")">>

RECURSIVE DoPrintf(_, _, _, _)
DoPrintf(format, i, args, argNum) ==
    IF i > Len(format)
    THEN IF argNum <= Len(args)
         THEN ExtraString \o ExtraArgs(args, argNum) \o <<")">>
         ELSE <<>>
    ELSE IF format[i] # "%"
    THEN <<format[i]>> \o DoPrintf(format, i + 1, args, argNum)
    ELSE IF i = Len(format)
    THEN NoVerbString \o DoPrintf(format, i + 1, args, argNum)
    ELSE LET verb == format[i + 1]
         IN  IF verb = "%"
             THEN <<"%">> \o DoPrintf(format, i + 2, args, argNum)
             ELSE IF argNum > Len(args)
             THEN <<"%", "!", verb>> \o MissingString
                  \o DoPrintf(format, i + 2, args, argNum)
             ELSE IF verb \in {"s", "v"}
             THEN args[argNum] \o DoPrintf(format, i + 2, args, argNum + 1)
             ELSE BadVerb(verb, args[argNum])
                  \o DoPrintf(format, i + 2, args, argNum + 1)

Sprintf(format, args) == DoPrintf(format, 1, args, 1)

\* log.Logger.Output: the prefix, the text, and a newline when the text
\* does not end in one; handed to the writer in one Write.
Output(prefix, s) ==
    prefix \o s \o (IF Len(s) = 0 \/ s[Len(s)] # "\n" THEN <<"\n">> ELSE <<>>)

----------------------------------------------------------------------------
(* The logger.                                                             *)

\* the prefix stdlog.New is given: c.Prefix + " "
LogPrefix(c) == c.Prefix \o <<" ">>

\* the PrintFunc logWrite returns: it closes over the prefix it computed
logWrite(level, ctx) ==
    [fn |-> "logWrite", prefix |-> level \o <<"[">> \o Join(ctx, <<"|">>) \o <<"]">>]

NoOpFnWrites(level, ctx) == logWrite(level, ctx)

\* the PrintFunc NoOpFn returns: it ignores its arguments
NoOpFn(level, ctx) == [fn |-> "NoOpFn", prefix |-> <<>>]

\* a call through a slot of type LoggerFunc
CallSlot(slot, level, ctx) ==
    IF slot = "logWrite" THEN logWrite(level, ctx) ELSE NoOpFn(level, ctx)

Armed(l) == {s \in {"errorFn", "infoFn", "debugFn"} : l[s] = "logWrite"}

AllNoOp == [errorFn |-> "NoOpFn", debugFn |-> "NoOpFn", infoFn |-> "NoOpFn"]

LevelNoFallthrough(l, level) ==
    IF level = LevelDebug THEN [l EXCEPT !.debugFn = "logWrite"]
    ELSE IF level = LevelInfo THEN [l EXCEPT !.infoFn = "logWrite"]
    ELSE IF level = LevelError THEN [l EXCEPT !.errorFn = "logWrite"]
    ELSE l

LevelReset(l, level) ==
    [debugFn |-> IF level = LevelDebug THEN "logWrite" ELSE "NoOpFn",
     infoFn |-> IF level \in {LevelDebug, LevelInfo} THEN "logWrite" ELSE "NoOpFn",
     errorFn |-> IF level \in {LevelDebug, LevelInfo, LevelError}
                 THEN "logWrite" ELSE "NoOpFn"]

LevelShift(l, level) ==
    IF level \in {LevelDebug, LevelInfo, LevelError}
    THEN [debugFn |-> IF level = LevelDebug THEN "logWrite" ELSE l.infoFn,
          infoFn |-> IF level \in {LevelDebug, LevelInfo} THEN "logWrite" ELSE l.errorFn,
          errorFn |-> "logWrite"]
    ELSE l

\* Level: the switch with its fallthroughs, run to its return
Level(l, level) ==
    LET l1 == IF level = LevelDebug
              THEN [l EXCEPT !.debugFn = "logWrite"] ELSE l
        l2 == IF level \in {LevelDebug, LevelInfo}
              THEN [l1 EXCEPT !.infoFn = "logWrite"] ELSE l1
        l3 == IF level \in {LevelDebug, LevelInfo, LevelError}
              THEN [l2 EXCEPT !.errorFn = "logWrite"] ELSE l2
    IN  l3

NewSkipLevel(c) == AllNoOp

\* New: all slots on NoOpFn, then Level(c.Level)
New(c) == Level(AllNoOp, c.Level)

Error(l, ctx) == CallSlot(l.errorFn, ErrStr, ctx)
Info(l, ctx) == CallSlot(l.infoFn, InfoStr, ctx)
Debug(l, ctx) == CallSlot(l.debugFn, DebugStr, ctx)

\* what invoking a PrintFunc hands to the logger's writer
PrintFuncWrites(f, c, format, args) ==
    IF f.fn = "logWrite"
    THEN <<Output(LogPrefix(c), Sprintf(f.prefix \o <<"<">> \o format \o <<">">>, args))>>
    ELSE <<>>

----------------------------------------------------------------------------
(* Operations.                                                             *)

\* history record of an operation; again: a Level call that repeats the
\* Level call completed just before it
Op(name) ==
    [op |-> name, level |-> "n/a", again |-> FALSE, format |-> <<>>, args |-> <<>>]

LevelOp(level) ==
    [Op("Level") EXCEPT !.level = level,
                        !.again = (last.op = "Level" /\ last.level = level)]

Init ==
    /\ cfg \in [Level : LevelNames, Prefix : Prefixes]
    /\ logger = NilLogger
    /\ pf = NilFunc
    /\ pfInfo = NilInfo
    /\ stdout = <<>>
    /\ stderr = <<>>
    /\ alive = TRUE
    /\ last = Op("none")
    /\ pcLevel = "idle"
    /\ lvlArg = "n/a"

NewCall ==
    /\ alive
    /\ logger = NilLogger
    /\ logger' = New(cfg)
    /\ last' = Op("New")
    /\ stdout' = <<>>
    /\ stderr' = <<>>
    /\ UNCHANGED <<cfg, pf, pfInfo, alive, pcLevel, lvlArg>>

LevelCall(level) ==
    /\ alive
    /\ logger # NilLogger
    /\ pcLevel = "idle"
    /\ logger' = Level(logger, level)
    /\ last' = LevelOp(level)
    /\ stdout' = <<>>
    /\ stderr' = <<>>
    /\ UNCHANGED <<cfg, pf, pfInfo, alive, pcLevel, lvlArg>>

LogCall(name, slot, f, ctx) ==
    /\ alive
    /\ logger # NilLogger
    /\ pf' = f
    /\ pfInfo' = [slot |-> slot, ctx |-> ctx, armed |-> logger[slot] = "logWrite"]
    /\ last' = Op(name)
    /\ stdout' = <<>>
    /\ stderr' = <<>>
    /\ UNCHANGED <<cfg, logger, alive, pcLevel, lvlArg>>

ErrorCall(ctx) == LogCall("Error", "errorFn", Error(logger, ctx), ctx)
InfoCall(ctx) == LogCall("Info", "infoFn", Info(logger, ctx), ctx)
DebugCall(ctx) == LogCall("Debug", "debugFn", Debug(logger, ctx), ctx)

Invoke(format, args) ==
    /\ alive
    /\ pf # NilFunc
    /\ stdout' = PrintFuncWrites(pf, cfg, format, args)
    /\ stderr' = <<>>
    /\ last' = [Op("Invoke") EXCEPT !.format = format, !.args = args]
    /\ UNCHANGED <<cfg, logger, pf, pfInfo, alive, pcLevel, lvlArg>>

FatalNoExit(args) ==
    /\ alive
    /\ stderr' = <<Output(<<>>, Sprint(args))>>
    /\ stdout' = <<>>
    /\ last' = [Op("Fatal") EXCEPT !.args = args]
    /\ UNCHANGED <<cfg, logger, pf, pfInfo, alive, pcLevel, lvlArg>>

\* Fatal: the standard logger's Output of Sprint(args), then os.Exit(1)
Fatal(args) ==
    /\ alive
    /\ stderr' = <<Output(<<>>, Sprint(args))>>
    /\ stdout' = <<>>
    /\ alive' = FALSE
    /\ last' = [Op("Fatal") EXCEPT !.args = args]
    /\ UNCHANGED <<cfg, logger, pf, pfInfo, pcLevel, lvlArg>>

\* Level run one statement at a time, next to calls from other threads:
\* the switch picks the first case, each case assigns one slot and falls
\* through to the next, and the call returns.
LevelBegin(level) ==
    /\ alive
    /\ logger # NilLogger
    /\ pcLevel = "idle"
    /\ lvlArg' = level
    /\ pcLevel' = IF level = LevelDebug THEN "debug"
                  ELSE IF level = LevelInfo THEN "info"
                  ELSE IF level = LevelError THEN "error"
                  ELSE "return"
    /\ UNCHANGED <<cfg, logger, pf, pfInfo, stdout, stderr, alive, last>>

LevelSetDebug ==
    /\ alive
    /\ pcLevel = "debug"
    /\ logger' = [logger EXCEPT !.debugFn = "logWrite"]
    /\ pcLevel' = "info"
    /\ UNCHANGED <<cfg, pf, pfInfo, stdout, stderr, alive, last, lvlArg>>

LevelSetInfo ==
    /\ alive
    /\ pcLevel = "info"
    /\ logger' = [logger EXCEPT !.infoFn = "logWrite"]
    /\ pcLevel' = "error"
    /\ UNCHANGED <<cfg, pf, pfInfo, stdout, stderr, alive, last, lvlArg>>

LevelSetError ==
    /\ alive
    /\ pcLevel = "error"
    /\ logger' = [logger EXCEPT !.errorFn = "logWrite"]
    /\ pcLevel' = "return"
    /\ UNCHANGED <<cfg, pf, pfInfo, stdout, stderr, alive, last, lvlArg>>

LevelReturn ==
    /\ alive
    /\ pcLevel = "return"
    /\ pcLevel' = "idle"
    /\ lvlArg' = "n/a"
    /\ last' = LevelOp(lvlArg)
    /\ UNCHANGED <<cfg, logger, pf, pfInfo, stdout, stderr, alive>>

Next ==
    \/ NewCall
    \/ \E level \in LevelNames : LevelCall(level)
    \/ \E ctx \in CtxLists : ErrorCall(ctx)
    \/ \E ctx \in CtxLists : InfoCall(ctx)
    \/ \E ctx \in CtxLists : DebugCall(ctx)
    \/ \E format \in Formats, args \in ArgLists : Invoke(format, args)
    \/ \E args \in ArgLists : Fatal(args)

Spec == Init /\ [][Next]_vars

NextConc ==
    \/ NewCall
    \/ \E level \in LevelNames : LevelBegin(level)
    \/ LevelSetDebug
    \/ LevelSetInfo
    \/ LevelSetError
    \/ LevelReturn
    \/ \E ctx \in CtxLists : ErrorCall(ctx)
    \/ \E ctx \in CtxLists : InfoCall(ctx)
    \/ \E ctx \in CtxLists : DebugCall(ctx)
    \/ \E format \in Formats, args \in ArgLists : Invoke(format, args)
    \/ \E args \in ArgLists : Fatal(args)

SpecConc == Init /\ [][NextConc]_vars

----------------------------------------------------------------------------
(* Properties.                                                             *)

Recognized == {LevelError, LevelInfo, LevelDebug}

Active(f) == f.fn = "logWrite"

IsLadder(l) ==
    /\ l.debugFn = "logWrite" => l.infoFn = "logWrite"
    /\ l.infoFn = "logWrite" => l.errorFn = "logWrite"

\* C1: right after Level(L) returns, for L among Error, Info and Debug,
\* Error(...) yields an active formatter, Info(...) yields one iff L is Info
\* or Debug, and Debug(...) yields one iff L is Debug.
CumulativeArmingLaw ==
    (last.op = "Level" /\ last.level \in Recognized) =>
        \A ctx \in CtxLists :
            /\ Active(Error(logger, ctx))
            /\ Active(Info(logger, ctx)) <=> last.level \in {LevelInfo, LevelDebug}
            /\ Active(Debug(logger, ctx)) <=> last.level = LevelDebug

\* C2: after New and any sequence of completed Level calls, with any level
\* names, the armed slots are a prefix of [Error, Info, Debug].
SeverityLadder ==
    (logger # NilLogger /\ pcLevel = "idle") => IsLadder(logger)

SeverityLadderWitness ==
    /\ last.op = "Level"
    /\ last.level = "bogus"
    /\ Armed(logger) = {"errorFn", "infoFn"}

\* C3: right after New, the armed slots are decided by cfg.Level alone:
\* "Error" arms Error only, "Info" arms Error and Info, "Debug" arms all
\* three, and any other name leaves a logger with all three slots no-op.
NewArming ==
    last.op = "New" =>
        /\ logger # NilLogger
        /\ cfg.Level = LevelError => Armed(logger) = {"errorFn"}
        /\ cfg.Level = LevelInfo => Armed(logger) = {"errorFn", "infoFn"}
        /\ cfg.Level = LevelDebug => Armed(logger) = {"errorFn", "infoFn", "debugFn"}
        /\ cfg.Level \notin Recognized => logger = AllNoOp

NewArmingWitness ==
    /\ last.op = "New"
    /\ cfg.Level = "debug"
    /\ logger = AllNoOp

\* C4: a Level call with a name other than "Error", "Info", "Debug" leaves
\* the three slots as they were.
UnknownLevelNoChange ==
    [][(last'.op = "Level" /\ last'.level \notin Recognized) => logger' = logger]_vars

UnknownLevelWitness ==
    /\ last.op = "Level"
    /\ last.level = "debug"
    /\ Armed(logger) = {"errorFn", "infoFn"}
    /\ pf # NilFunc

\* C5: a Level call that repeats the Level call just before it, with the
\* same name, leaves the three slots as the first call left them.
IdempotentLevel ==
    [][(last'.op = "Level" /\ last'.again) => logger' = logger]_vars

IdempotentLevelWitness ==
    /\ last.op = "Level"
    /\ last.again
    /\ last.level = LevelInfo
    /\ cfg.Level = LevelError
    /\ Armed(logger) = {"errorFn", "infoFn"}

\* C6: invoking a formatter that was returned while its slot was inactive
\* writes nothing and changes no logger state, also when the slot has been
\* armed since.
NoOpPurity ==
    [][(last'.op = "Invoke" /\ ~pfInfo.armed) =>
          /\ stdout' = <<>>
          /\ stderr' = <<>>
          /\ logger' = logger
          /\ cfg' = cfg
          /\ alive' = alive]_vars

NoOpPurityWitness ==
    /\ last.op = "Invoke"
    /\ last.args # <<>>
    /\ pfInfo.slot = "debugFn"
    /\ ~pfInfo.armed
    /\ logger.debugFn = "logWrite"
    /\ stdout = <<>>

Tag(slot) ==
    IF slot = "errorFn" THEN ErrStr
    ELSE IF slot = "infoFn" THEN InfoStr
    ELSE DebugStr

\* the number of arguments a template's verbs consume, "%%" consuming none
RECURSIVE VerbCount(_, _)
VerbCount(format, i) ==
    IF i >= Len(format) THEN 0
    ELSE IF format[i] # "%" THEN VerbCount(format, i + 1)
    ELSE (IF format[i + 1] = "%" THEN 0 ELSE 1) + VerbCount(format, i + 2)

\* a template whose last letter is a "%" that starts no verb
RECURSIVE EndsInPercent(_, _)
EndsInPercent(format, i) ==
    IF i > Len(format) THEN FALSE
    ELSE IF format[i] # "%" THEN EndsInPercent(format, i + 1)
    ELSE IF i = Len(format) THEN TRUE
    ELSE EndsInPercent(format, i + 2)

\* a template with one verb per argument and no "%" left over at its end
WellFormed(format, args) ==
    /\ VerbCount(format, 1) = Len(args)
    /\ ~EndsInPercent(format, 1)

\* C7: invoking the formatter of an active slot hands the writer exactly
\* one line, Prefix " " Tag "[" contexts joined by "|" "]" "<" the template
\* with its arguments substituted ">", the contexts verbatim; stated for
\* the templates that have one verb per argument.
EmittedLineFormat ==
    (last.op = "Invoke" /\ pfInfo.armed /\ WellFormed(last.format, last.args)) =>
        stdout = << cfg.Prefix \o <<" ">> \o Tag(pfInfo.slot)
                    \o <<"[">> \o Join(pfInfo.ctx, <<"|">>) \o <<"]">>
                    \o <<"<">> \o Sprintf(last.format, last.args) \o <<">">>
                    \o <<"\n">> >>

\* C8: Fatal can be called in every state of a live process; it writes its
\* arguments as one line without tag or bracket and ends the process, and
\* no operation runs in a process that has ended.
FatalBypass ==
    /\ [](alive => \A args \in ArgLists : ENABLED Fatal(args))
    /\ [][/\ alive
          /\ last'.op = "Fatal" =>
                /\ ~alive'
                /\ stderr' = <<Sprint(last'.args) \o <<"\n">>>>
                /\ stdout' = <<>>
                /\ logger' = logger]_vars

FatalBypassWitness ==
    /\ ~alive
    /\ last.op = "Fatal"
    /\ last.args # <<>>
    /\ logger = AllNoOp
    /\ Len(stderr) = 1

\* C9: with Level running one assignment at a time next to log calls, the
\* armed slots are a prefix of [Error, Info, Debug] in every state a log
\* call can read, the states inside a Level call included.
LadderAtEveryStep ==
    \A pc \in {"idle", "debug", "info", "error", "return"} :
        (logger # NilLogger /\ pcLevel = pc) => IsLadder(logger)

=============================================================================
